---- MODULE Spec2Model ----
(***************************************************************************)
(* Bitkit-Bridging-Header.h, read by the C preprocessor.                   *)
(*                                                                         *)
(* The header is five directives: an include guard (#ifndef / #define /    *)
(* #endif) around two #include lines.  The model runs the preprocessor     *)
(* over a translation unit that includes the header any number of times,   *)
(* one header line per step.  The two FFI headers are not part of this     *)
(* repository: entering one is recorded as an event and its text is not    *)
(* modelled.  The translation unit's own directives are the environment:   *)
(* it includes the bridging header, includes the FFI headers directly, and *)
(* defines or undefines macros of its own (TUMacros); the guard name       *)
(* belongs to the header and the translation unit leaves it alone.         *)
(***************************************************************************)
EXTENDS Naturals, Sequences, FiniteSets

\* Number of top-level directives of the translation unit that are processed.
MaxDirectives == 4

\* Line 8/9/19: the guard macro.
Bitkit_Bridging_Header_h == "Bitkit_Bridging_Header_h"

\* Line 12 and line 17: the two files the header includes.
paykit_mobileFFI_h == "paykit_mobileFFI.h"
pubky_noiseFFI_h == "pubky_noiseFFI.h"

\* Lines 15-16: HEADER_SEARCH_PATHS is set for the device or for the simulator,
\* and decides which copy of pubky_noiseFFI.h the name resolves to.
HEADER_SEARCH_PATHS == {"ios-arm64", "ios-arm64_x86_64-simulator"}

\* Macros the including translation unit defines and undefines itself.
TUMacros == {"DEBUG"}

\* Positions: 0 is the translation unit's top level, the others are the lines
\* of the header that hold a directive.
AtTU == 0
LineIfndef == 8
LineDefine == 9
LineIncludePaykit == 12
LineIncludeNoise == 17
LineEndif == 19

VARIABLES
    defined,      \* the set of macros currently defined
    included,     \* the files entered so far, in order, each with who included it
    pc,           \* AtTU, or the header line about to be processed
    searchPath,   \* the HEADER_SEARCH_PATHS setting of this build
    inclusions,   \* how many times the bridging header has been entered
    directives,   \* top-level directives processed so far
    contrib,      \* contrib[i]: what the i-th inclusion of the header did
    before        \* defined and included as they were when the header was entered

vars == <<defined, included, pc, searchPath, inclusions, directives, contrib, before>>

\* Where a quoted file name resolves: only pubky_noiseFFI.h depends on the
\* search path (lines 15-17).
Resolve(file) == IF file = pubky_noiseFFI_h THEN searchPath ELSE "project"

Entered(file, from) == [file |-> file, from |-> from, dir |-> Resolve(file)]

\* The current inclusion of the header records one more thing it did.
Record(event) == [contrib EXCEPT ![Len(contrib)] = Append(@, event)]

Init ==
    /\ defined = {}
    /\ included = <<>>
    /\ pc = AtTU
    /\ searchPath \in HEADER_SEARCH_PATHS
    /\ inclusions = 0
    /\ directives = 0
    /\ contrib = <<>>
    /\ before = [defined |-> {}, included |-> <<>>]

----
\* The translation unit.

\* #include "Bitkit-Bridging-Header.h": the preprocessor enters the header at its
\* first directive.
TUIncludeBridging ==
    /\ pc = AtTU
    /\ directives < MaxDirectives
    /\ pc' = LineIfndef
    /\ inclusions' = inclusions + 1
    /\ directives' = directives + 1
    /\ contrib' = Append(contrib, <<>>)
    /\ before' = [defined |-> defined, included |-> included]
    /\ UNCHANGED <<defined, included, searchPath>>

\* The translation unit includes one of the FFI headers itself.
TUIncludeFFI ==
    /\ pc = AtTU
    /\ directives < MaxDirectives
    /\ \E file \in {paykit_mobileFFI_h, pubky_noiseFFI_h} :
          included' = Append(included, Entered(file, "tu"))
    /\ directives' = directives + 1
    /\ UNCHANGED <<defined, pc, searchPath, inclusions, contrib, before>>

\* The translation unit defines or undefines a macro of its own.
TUDefine ==
    /\ pc = AtTU
    /\ directives < MaxDirectives
    /\ \E m \in TUMacros :
          \/ defined' = defined \cup {m}
          \/ defined' = defined \ {m}
    /\ directives' = directives + 1
    /\ UNCHANGED <<included, pc, searchPath, inclusions, contrib, before>>

----
\* The header, line by line.

\* Line 8: #ifndef Bitkit_Bridging_Header_h.  When the guard is defined the
\* whole group is skipped, up to the matching #endif on line 19.
IfndefGuard ==
    /\ pc = LineIfndef
    /\ pc' = IF Bitkit_Bridging_Header_h \in defined THEN LineEndif ELSE LineDefine
    /\ UNCHANGED <<defined, included, searchPath, inclusions, directives, contrib, before>>

\* A header that forgets to define its guard.
DefineGuardMissing ==
    /\ pc = LineDefine
    /\ pc' = LineIncludePaykit
    /\ UNCHANGED <<defined, included, searchPath, inclusions, directives, contrib, before>>

\* Line 9: #define Bitkit_Bridging_Header_h.
DefineGuard ==
    /\ pc = LineDefine
    /\ defined' = defined \cup {Bitkit_Bridging_Header_h}
    /\ contrib' = Record(<<"define", Bitkit_Bridging_Header_h>>)
    /\ pc' = LineIncludePaykit
    /\ UNCHANGED <<included, searchPath, inclusions, directives, before>>

\* Line 12: #include "paykit_mobileFFI.h".
IncludePaykit ==
    /\ pc = LineIncludePaykit
    /\ included' = Append(included, Entered(paykit_mobileFFI_h, "bridge"))
    /\ contrib' = Record(<<"include", paykit_mobileFFI_h>>)
    /\ pc' = LineIncludeNoise
    /\ UNCHANGED <<defined, searchPath, inclusions, directives, before>>

\* Line 17: #include "pubky_noiseFFI.h".
IncludeNoise ==
    /\ pc = LineIncludeNoise
    /\ included' = Append(included, Entered(pubky_noiseFFI_h, "bridge"))
    /\ contrib' = Record(<<"include", pubky_noiseFFI_h>>)
    /\ pc' = LineEndif
    /\ UNCHANGED <<defined, searchPath, inclusions, directives, before>>

\* Line 19: #endif.  The header ends and the translation unit goes on.
Endif ==
    /\ pc = LineEndif
    /\ pc' = AtTU
    /\ UNCHANGED <<defined, included, searchPath, inclusions, directives, contrib, before>>

Next ==
    \/ TUIncludeBridging
    \/ TUIncludeFFI
    \/ TUDefine
    \/ IfndefGuard
    \/ DefineGuard
    \/ IncludePaykit
    \/ IncludeNoise
    \/ Endif

Spec == Init /\ [][Next]_vars

----
TypeOK ==
    /\ defined \subseteq (TUMacros \cup {Bitkit_Bridging_Header_h})
    /\ pc \in {AtTU, LineIfndef, LineDefine, LineIncludePaykit, LineIncludeNoise, LineEndif}
    /\ searchPath \in HEADER_SEARCH_PATHS
    /\ inclusions = Len(contrib)
    /\ directives \in 0..MaxDirectives

\* What one full pass through the guarded group does, in order.
FirstInclusion ==
    << <<"define", Bitkit_Bridging_Header_h>>,
       <<"include", paykit_mobileFFI_h>>,
       <<"include", pubky_noiseFFI_h>> >>

IsPrefix(s, t) == Len(s) <= Len(t) /\ SubSeq(t, 1, Len(s)) = s

\* The files the bridging header itself entered, in order.
RECURSIVE FromBridge(_)
FromBridge(s) ==
    IF s = <<>> THEN <<>>
    ELSE IF Head(s).from = "bridge"
         THEN <<Head(s).file>> \o FromBridge(Tail(s))
         ELSE FromBridge(Tail(s))

\* C10: the first inclusion of the bridging header in a translation unit
\* defines the guard Bitkit_Bridging_Header_h, then includes paykit_mobileFFI.h,
\* then pubky_noiseFFI.h, and does nothing else; every later inclusion does
\* nothing at all: it defines no macro and enters no file, so the macros and
\* the files entered are what they were before it.
C10_GuardedIncludeOnce ==
    /\ \A i \in 1..Len(contrib) :
          IF i = 1
          THEN /\ IsPrefix(contrib[1], FirstInclusion)
               /\ (pc = AtTU \/ inclusions > 1) => contrib[1] = FirstInclusion
          ELSE contrib[i] = <<>>
    /\ (inclusions > 1 /\ pc # AtTU) =>
          /\ defined = before.defined
          /\ included = before.included
    /\ (inclusions >= 1 /\ (pc = AtTU \/ inclusions > 1)) =>
          /\ Bitkit_Bridging_Header_h \in defined
          /\ FromBridge(included) = <<paykit_mobileFFI_h, pubky_noiseFFI_h>>

\* A second inclusion of the header has run to its end, after a first one that
\* went through the whole group.
C10_Witness ==
    /\ inclusions >= 2
    /\ pc = AtTU
    /\ contrib[1] = FirstInclusion
    /\ contrib[2] = <<>>
    /\ FromBridge(included) = <<paykit_mobileFFI_h, pubky_noiseFFI_h>>

====
